---- MODULE Spec2Model ----
(***************************************************************************)
(* Model of the bookkeeping types of ossfs (src/types.h): untreatedpart    *)
(* and the untreated list, etagpair / etaglist_t / filepart, and acl_t.    *)
(***************************************************************************)
EXTENDS Integers, Sequences, FiniteSets, TLC

VARIABLES
    upart,            \* one untreatedpart object (start, size, untreated_tag)
    last,            \* the last call made on part: operation, arguments, object before, results
    untreated_list,  \* untreated_list_t: the ranges of the tracker, in list order
    inserted,        \* history: the <<start, size>> of every accepted insert_or_merge, in call order
    ret,             \* outcome of the last insert_or_merge call
    etaglist,        \* etaglist_t: list nodes by address, their order, the allocator's next address
    fileparts,       \* the filepart objects, in creation order (one per add_etag_list call)
    calls,           \* history: the partnum argument of every add_etag_list call
    writes,          \* history: <<k, etag>> for every etag written through filepart k's petag
    value_,          \* acl_t::value_ of one acl_t object
    acl_arg,         \* the string the object was parsed from
    str_ret          \* whether str() was called on the object, and the pointer it returned

vars == <<upart, last, untreated_list, inserted, ret, etaglist, fileparts, calls, writes,
          value_, acl_arg, str_ret>>

rangeVars  == <<upart, last>>
trackVars  == <<untreated_list, inserted, ret>>
ledgerVars == <<etaglist, fileparts, calls, writes>>
aclVars    == <<value_, acl_arg, str_ret>>

----------------------------------------------------------------------------
(* Bounds *)
MaxOff     == 2     \* start offsets 0..MaxOff (and -1 as the invalid one)
MaxSize    == 2     \* sizes 1..MaxSize (and -1, 0 as the invalid ones)
MaxInserts == 3     \* accepted insert_or_merge calls per tracker

\* arguments of the range operations: small values, invalid ones, and the values of
\* the examples [0,10) + [10,5) and [0,5) / [100,5)
Starts == (-1..MaxOff) \cup {10, 100}
Sizes  == (-1..MaxSize) \cup {5, 10}
Tags   == {1, 2}

----------------------------------------------------------------------------
(* untreatedpart *)

min(a, b) == IF b < a THEN b ELSE a
max(a, b) == IF a < b THEN b ELSE a

\* untreatedpart::clear
clear == [start |-> 0, size |-> 0, untreated_tag |-> 0]

untreatedpart_noclear(part_start, part_size, part_untreated_tag) ==
    IF part_start < 0 \/ part_size < 0
    THEN clear
    ELSE [start |-> part_start, size |-> part_size, untreated_tag |-> part_untreated_tag]

\* untreatedpart::untreatedpart
untreatedpart(part_start, part_size, part_untreated_tag) ==
    IF part_start < 0 \/ part_size <= 0
    THEN clear
    ELSE [start |-> part_start, size |-> part_size, untreated_tag |-> part_untreated_tag]

check_overlap_nosize(self, chk_start, chk_size) ==
    ~ (chk_start < 0
       \/ (chk_start + chk_size) < self.start \/ (self.start + self.size) < chk_start)

\* untreatedpart::check_overlap
check_overlap(self, chk_start, chk_size) ==
    ~ (chk_start < 0 \/ chk_size <= 0
       \/ (chk_start + chk_size) < self.start \/ (self.start + self.size) < chk_start)

stretch_strict(self, add_start, add_size, tag) ==
    IF ~ check_overlap(self, add_start, add_size)
       \/ add_start + add_size = self.start \/ self.start + self.size = add_start
    THEN [self |-> self, ret |-> FALSE]
    ELSE LET new_start      == min(self.start, add_start)
             new_next_start == max(self.start + self.size, add_start + add_size)
         IN  [self |-> [start |-> new_start, size |-> new_next_start - new_start,
                        untreated_tag |-> tag],
              ret |-> TRUE]

\* untreatedpart::stretch: the object after the call and the returned value
stretch(self, add_start, add_size, tag) ==
    IF ~ check_overlap(self, add_start, add_size)
    THEN [self |-> self, ret |-> FALSE]
    ELSE LET new_start      == min(self.start, add_start)
             new_next_start == max(self.start + self.size, add_start + add_size)
         IN  [self |-> [start |-> new_start, size |-> new_next_start - new_start,
                        untreated_tag |-> tag],
              ret |-> TRUE]

NoCall == [op |-> "none"]

InvalidArgs(s, n) == s < 0 \/ n <= 0

(* The untreated list (the tracker).  Its insert operation is not part of types.h; *)
(* it is modelled as the specification states it: reject invalid input, stretch    *)
(* the first range that check_overlap accepts, otherwise append a new range.       *)

RECURSIVE FirstStretch(_, _, _, _, _)
FirstStretch(list, i, start, size, tag) ==
    IF i > Len(list) THEN 0
    ELSE IF stretch(list[i], start, size, tag).ret THEN i
    ELSE FirstStretch(list, i + 1, start, size, tag)

insert_or_merge(list, start, size, tag) ==
    IF size <= 0 \/ start < 0
    THEN [list |-> list, ret |-> "rejected"]
    ELSE LET i == FirstStretch(list, 1, start, size, tag)
         IN  IF i # 0
             THEN [list |-> [list EXCEPT ![i] = stretch(list[i], start, size, tag).self],
                   ret |-> "merged"]
             ELSE [list |-> Append(list, untreatedpart(start, size, tag)),
                   ret |-> "inserted"]

\* one insert_or_merge call on the tracker
InsertOrMerge(s, n, t) ==
    /\ Len(inserted) < MaxInserts
    /\ LET r == insert_or_merge(untreated_list, s, n, t)
       IN  /\ untreated_list' = r.list
           /\ ret' = r.ret
           /\ inserted' = IF r.ret = "rejected" THEN inserted ELSE Append(inserted, <<s, n>>)
    /\ UNCHANGED <<rangeVars, ledgerVars, aclVars>>

\* untreatedpart p(part_start, part_size, tag);
Construct(s, n, t) ==
    /\ upart' = untreatedpart(s, n, t)
    /\ last' = [op |-> "construct", start |-> s, size |-> n, tag |-> t, pre |-> upart,
                chk |-> FALSE, ret |-> FALSE]
    /\ UNCHANGED <<trackVars, ledgerVars, aclVars>>

\* chk = p.check_overlap(add_start, add_size); ret = p.stretch(add_start, add_size, tag);
Stretch(s, n, t) ==
    /\ upart' = stretch(upart, s, n, t).self
    /\ last' = [op |-> "stretch", start |-> s, size |-> n, tag |-> t, pre |-> upart,
                chk |-> check_overlap(upart, s, n), ret |-> stretch(upart, s, n, t).ret]
    /\ UNCHANGED <<trackVars, ledgerVars, aclVars>>

InitRest ==
    /\ upart = clear
    /\ last = NoCall
    /\ untreated_list = << >>
    /\ inserted = << >>
    /\ ret = "none"
    /\ etaglist = [nodes |-> << >>, order |-> << >>, brk |-> 1]
    /\ fileparts = << >>
    /\ calls = << >>
    /\ writes = << >>
    /\ value_ = "UNKNOWN"
    /\ acl_arg = << >>
    /\ str_ret = [called |-> FALSE, ptr |-> << >>]

NextRange ==
    \/ \E s \in Starts, n \in Sizes, t \in Tags : Construct(s, n, t)
    \/ \E s \in Starts, n \in Sizes, t \in Tags : Stretch(s, n, t)

SpecRange == InitRest /\ [][NextRange]_vars

TrackStarts == -1..MaxOff
TrackSizes  == -1..MaxSize

NextTrack == \E s \in TrackStarts, n \in TrackSizes, t \in Tags : InsertOrMerge(s, n, t)

SpecTrack == InitRest /\ [][NextTrack]_vars

----------------------------------------------------------------------------
(* etagpair / etaglist_t / filepart *)

NULL == 0

Etags == {"e1", "e2"}

\* etagpair::etagpair
etagpair(petag, part) == [etag |-> IF petag # NULL THEN petag ELSE "", part_num |-> part]

\* std::list<etagpair>: a node per element, allocated once and never moved; order is
\* the sequence of node addresses from begin() to end()
list_size(list) == Len(list.order)

list_back(list) == list.order[Len(list.order)]

\* a container that reallocates on growth: every element moves to a new address
list_push_back_realloc(list, v) ==
    LET n == Len(list.order)
    IN  [nodes |-> [a \in list.brk .. (list.brk + n) |->
                       IF a = list.brk + n THEN v ELSE list.nodes[list.order[a - list.brk + 1]]],
         order |-> [i \in 1..(n + 1) |-> list.brk + i - 1],
         brk   |-> list.brk + n + 1]

\* std::list::push_back
list_push_back(list, v) ==
    [nodes |-> (list.brk :> v) @@ list.nodes,
     order |-> Append(list.order, list.brk),
     brk   |-> list.brk + 1]

\* filepart::filepart (the members the ledger uses)
filepart == [uploaded |-> FALSE, etag |-> "", petag |-> NULL]

add_etag_list_nosucc(self, list, partnum) ==
    LET pn == IF -1 = partnum THEN list_size(list) ELSE partnum
        l2 == list_push_back(list, etagpair(NULL, pn))
    IN  [self |-> [self EXCEPT !.petag = list_back(l2)], list |-> l2]

add_etag_list_clamp(self, list, partnum) ==
    LET pn == IF -1 = partnum
              THEN (IF list_size(list) = 0 THEN 1 ELSE list_size(list))
              ELSE partnum
        l2 == list_push_back(list, etagpair(NULL, pn))
    IN  [self |-> [self EXCEPT !.petag = list_back(l2)], list |-> l2]

\* filepart::add_etag_list: the filepart and the list after the call
add_etag_list(self, list, partnum) ==
    LET pn == IF -1 = partnum THEN list_size(list) + 1 ELSE partnum
        l2 == list_push_back(list, etagpair(NULL, pn))
    IN  [self |-> [self EXCEPT !.petag = list_back(l2)], list |-> l2]

\* filepart::get_part_number
get_part_number(self, list) ==
    IF self.petag = NULL THEN -1 ELSE list.nodes[self.petag].part_num

\* the ledger's (part_number, etag) pairs in ascending part number; not part of
\* types.h, modelled as the specification states it (a stable sort of the list)
RECURSIVE InsertSorted(_, _)
InsertSorted(sorted, pair) ==
    IF sorted = << >> THEN <<pair>>
    ELSE IF pair[1] < Head(sorted)[1] THEN <<pair>> \o sorted
    ELSE <<Head(sorted)>> \o InsertSorted(Tail(sorted), pair)

RECURSIVE SortFrom(_, _, _)
SortFrom(list, i, acc) ==
    IF i > Len(list.order) THEN acc
    ELSE SortFrom(list, i + 1,
                  InsertSorted(acc, <<list.nodes[list.order[i]].part_num,
                                      list.nodes[list.order[i]].etag>>))

etags_in_part_order(list) == SortFrom(list, 1, << >>)

MaxParts   == 3     \* add_etag_list calls per ledger
MaxPartNum == 2     \* explicit part numbers 1..MaxPartNum

\* filepart fp; fp.add_etag_list(list, partnum);   (partnum = -1: default numbering)
AddPart(partnum) ==
    /\ Len(fileparts) < MaxParts
    /\ LET r == add_etag_list(filepart, etaglist, partnum)
       IN  /\ fileparts' = Append(fileparts, r.self)
           /\ etaglist' = r.list
    /\ calls' = Append(calls, partnum)
    /\ UNCHANGED <<writes, rangeVars, trackVars, aclVars>>

\* the worker that holds filepart k completes it: petag->etag = e; uploaded = true;
\* (a part is completed once)
CompletePart(k, e) ==
    /\ k \in 1..Len(fileparts)
    /\ ~ fileparts[k].uploaded
    /\ LET p == fileparts[k].petag
       IN  etaglist' = IF p \in DOMAIN etaglist.nodes
                       THEN [etaglist EXCEPT !.nodes[p].etag = e]
                       ELSE etaglist
    /\ fileparts' = [fileparts EXCEPT ![k].uploaded = TRUE]
    /\ writes' = Append(writes, <<k, e>>)
    /\ UNCHANGED <<calls, rangeVars, trackVars, aclVars>>

NextLedger ==
    \/ \E pn \in {-1} \cup (1..MaxPartNum) : AddPart(pn)
    \/ \E k \in 1..MaxParts, e \in Etags : CompletePart(k, e)

SpecLedger == InitRest /\ [][NextLedger]_vars

----------------------------------------------------------------------------
(* acl_t; a C string is the sequence of its bytes *)

S_private           == <<112, 114, 105, 118, 97, 116, 101>>
S_public_read       == <<112, 117, 98, 108, 105, 99, 45, 114, 101, 97, 100>>
S_public_read_write == <<112, 117, 98, 108, 105, 99, 45, 114, 101, 97, 100, 45, 119, 114, 105, 116, 101>>
S_default           == <<100, 101, 102, 97, 117, 108, 116>>

\* strcmp: the difference of the first bytes that differ (the terminator is 0)
RECURSIVE strcmp(_, _)
strcmp(a, b) ==
    LET ca == IF a = << >> THEN 0 ELSE Head(a)
        cb == IF b = << >> THEN 0 ELSE Head(b)
    IN  IF ca # cb THEN ca - cb
        ELSE IF ca = 0 THEN 0
        ELSE strcmp(Tail(a), Tail(b))

tolower(c) == IF c \in 65..90 THEN c + 32 ELSE c
toupper(c) == IF c \in 97..122 THEN c - 32 ELSE c

RECURSIVE strcasecmp(_, _)
strcasecmp(a, b) ==
    LET ca == IF a = << >> THEN 0 ELSE tolower(Head(a))
        cb == IF b = << >> THEN 0 ELSE tolower(Head(b))
    IN  IF ca # cb THEN ca - cb
        ELSE IF ca = 0 THEN 0
        ELSE strcasecmp(Tail(a), Tail(b))

\* a const char* result: the NULL pointer, or a pointer to a string
NullStr == << >>
Ptr(s)  == <<s>>

\* acl_t::str
str(value) ==
    CASE value = "PRIVATE"           -> Ptr(S_private)
      [] value = "PUBLIC_READ"       -> Ptr(S_public_read)
      [] value = "PUBLIC_READ_WRITE" -> Ptr(S_public_read_write)
      [] value = "DEFAULT"           -> Ptr(S_default)
      [] value = "UNKNOWN"           -> NullStr

from_str_nocase(acl) ==
    IF 0 = strcasecmp(acl, S_private) THEN "PRIVATE"
    ELSE IF 0 = strcasecmp(acl, S_public_read) THEN "PUBLIC_READ"
    ELSE IF 0 = strcasecmp(acl, S_public_read_write) THEN "PUBLIC_READ_WRITE"
    ELSE IF 0 = strcasecmp(acl, S_default) THEN "DEFAULT"
    ELSE "UNKNOWN"

\* acl_t::from_str
from_str(acl) ==
    IF 0 = strcmp(acl, S_private) THEN "PRIVATE"
    ELSE IF 0 = strcmp(acl, S_public_read) THEN "PUBLIC_READ"
    ELSE IF 0 = strcmp(acl, S_public_read_write) THEN "PUBLIC_READ_WRITE"
    ELSE IF 0 = strcmp(acl, S_default) THEN "DEFAULT"
    ELSE "UNKNOWN"

AclNames == {S_private, S_public_read, S_public_read_write, S_default}

Upper(s)      == [i \in 1..Len(s) |-> toupper(s[i])]
Capitalize(s) == [i \in 1..Len(s) |-> IF i = 1 THEN toupper(s[i]) ELSE s[i]]
Prefixes(s)   == {SubSeq(s, 1, n) : n \in 0..Len(s)}

\* the strings parsed: the names, their prefixes (the empty string among them), the
\* names followed by one more byte, and the wrong-case forms of all of these
AclBase   == (UNION {Prefixes(s) : s \in AclNames}) \cup {Append(s, 120) : s \in AclNames}
AclInputs == AclBase \cup {Upper(s) : s \in AclBase} \cup {Capitalize(s) : s \in AclBase}

\* acl_t a = acl_t::from_str(s);
FromStr(s) ==
    /\ value_' = from_str(s)
    /\ acl_arg' = s
    /\ str_ret' = [called |-> FALSE, ptr |-> NullStr]
    /\ UNCHANGED <<rangeVars, trackVars, ledgerVars>>

\* r = a.str();
Str ==
    /\ str_ret' = [called |-> TRUE, ptr |-> str(value_)]
    /\ UNCHANGED <<value_, acl_arg, rangeVars, trackVars, ledgerVars>>

NextAcl ==
    \/ \E s \in AclInputs : FromStr(s)
    \/ Str

SpecAcl == InitRest /\ [][NextAcl]_vars

----------------------------------------------------------------------------
(* Properties of untreatedpart *)

Valid(p) == p.start >= 0 /\ p.size > 0

\* C3: for a valid existing range and valid arguments, stretch returns true exactly
\* when the two intervals share a byte or are adjacent; then the range becomes the
\* union interval with the new tag; otherwise the range keeps start, size and tag.
C3_StretchMergesIffTouching ==
    (last.op = "stretch" /\ Valid(last.pre) /\ ~ InvalidArgs(last.start, last.size)) =>
        LET es    == last.pre.start
            en    == last.pre.size
            touch == ~ ((last.start + last.size) < es \/ (es + en) < last.start)
            ns    == IF es < last.start THEN es ELSE last.start
            ne    == IF es + en > last.start + last.size THEN es + en
                     ELSE last.start + last.size
        IN  /\ last.ret = touch
            /\ touch => upart = [start |-> ns, size |-> ne - ns, untreated_tag |-> last.tag]
            /\ ~ touch => upart = last.pre

\* [0,10) stretched by [10,5) has become [0,15)
C3_Witness ==
    /\ last.op = "stretch" /\ last.ret
    /\ last.pre.start = 0 /\ last.pre.size = 10 /\ last.start = 10 /\ last.size = 5
    /\ upart.start = 0 /\ upart.size = 15 /\ upart.untreated_tag = last.tag
    /\ last.pre.untreated_tag # last.tag

\* C9: every range is valid (start >= 0, size > 0) or the zero range; constructing
\* with a negative start or a non-positive size gives the zero range whatever the tag.
C9_ValidOrZero ==
    /\ Valid(upart) \/ upart = [start |-> 0, size |-> 0, untreated_tag |-> 0]
    /\ (last.op = "construct" /\ InvalidArgs(last.start, last.size)) =>
           upart = [start |-> 0, size |-> 0, untreated_tag |-> 0]

\* a range constructed from invalid arguments (the zero range) has been stretched
C9_Witness ==
    /\ last.op = "stretch" /\ last.ret
    /\ last.pre = [start |-> 0, size |-> 0, untreated_tag |-> 0]
    /\ upart.size > 0

----------------------------------------------------------------------------
(* Properties of the tracker *)

RECURSIVE Total(_)
Total(list) == IF list = << >> THEN 0 ELSE Head(list).size + Total(Tail(list))

\* the bytes of the union of the inserted intervals
Covered(ins) == UNION {ins[i][1] .. (ins[i][1] + ins[i][2] - 1) : i \in 1..Len(ins)}

RECURSIVE InsertAll(_, _, _)
InsertAll(list, ins, k) ==
    IF k > Len(ins) THEN list
    ELSE InsertAll(insert_or_merge(list, ins[k][1], ins[k][2], k).list, ins, k + 1)

\* C1: the total covered length equals the size of the union of the inserted
\* intervals, and is the same for every order of the same inserted intervals.
C1_TotalIsUnion ==
    /\ Total(untreated_list) = Cardinality(Covered(inserted))
    /\ \A p \in Permutations(1..Len(inserted)) :
           Total(InsertAll(<< >>, [i \in 1..Len(inserted) |-> inserted[p[i]]], 1))
               = Total(untreated_list)

\* C2: no two distinct ranges of the tracker share a byte.
C2_Disjoint ==
    \A i, j \in 1..Len(untreated_list) :
        i # j =>
            LET a == untreated_list[i]
                b == untreated_list[j]
            IN  (a.start + a.size <= b.start) \/ (b.start + b.size <= a.start)

\* C4: a range operation with size <= 0 or start < 0 is a no-op: on every range of
\* the tracker check_overlap and stretch return false and leave the range as it is,
\* and the insert leaves the tracker (ranges and their number) unchanged.
C4_InvalidIsNoop ==
    [][\A s \in TrackStarts, n \in TrackSizes :
          InvalidArgs(s, n) =>
              /\ \A i \in 1..Len(untreated_list), t \in Tags :
                     /\ ~ check_overlap(untreated_list[i], s, n)
                     /\ stretch(untreated_list[i], s, n, t)
                            = [self |-> untreated_list[i], ret |-> FALSE]
              /\ \A t \in Tags :
                     InsertOrMerge(s, n, t) =>
                         /\ untreated_list' = untreated_list
                         /\ ret' = "rejected"]_vars

\* an invalid insert has been rejected on a tracker holding two ranges
C4_Witness == ret = "rejected" /\ Len(untreated_list) >= 2

----------------------------------------------------------------------------
(* Properties of the part ledger *)

AllDefault == \A i \in 1..Len(calls) : calls[i] = -1

\* the number the k-th add_etag_list call had to assign
Assigned(k) == IF calls[k] = -1 THEN k ELSE calls[k]

\* the etag written through filepart k's handle, "" when none was written
Written(k) ==
    IF \E i \in 1..Len(writes) : writes[i][1] = k
    THEN writes[CHOOSE i \in 1..Len(writes) : writes[i][1] = k][2]
    ELSE ""

HandlesValid ==
    /\ Len(fileparts) = Len(etaglist.order)
    /\ \A k \in 1..Len(fileparts) :
          /\ fileparts[k].petag \in DOMAIN etaglist.nodes
          /\ fileparts[k].petag = etaglist.order[k]
          /\ get_part_number(fileparts[k], etaglist) = Assigned(k)

HandlesStep ==
    /\ Len(etaglist'.order) >= Len(etaglist.order)
    /\ \A k \in 1..Len(fileparts) :
          LET h == fileparts[k].petag
          IN  /\ fileparts'[k].petag = h
              /\ h \in DOMAIN etaglist.nodes
              /\ h \in DOMAIN etaglist'.nodes
              /\ etaglist'.order[k] = etaglist.order[k]
              /\ etaglist'.nodes[h].part_num = etaglist.nodes[h].part_num
              /\ IF writes' # writes /\ writes'[Len(writes')][1] = k
                 THEN etaglist'.nodes[h].etag = writes'[Len(writes')][2]
                 ELSE etaglist'.nodes[h] = etaglist.nodes[h]

\* C5: a handle obtained from add_etag_list keeps referring to the same entry of the
\* list, with the same part number, across later add_etag_list calls, and a write of
\* an etag through one handle changes the etag of that handle's entry only: no other
\* entry changes and none is lost.
C5_HandlesStable == []HandlesValid /\ [][HandlesStep]_vars

\* three parts added, then etags written through the first and the last handle
C5_Witness ==
    /\ Len(fileparts) = 3
    /\ Len(writes) = 2 /\ writes[1][1] = 3 /\ writes[2][1] = 1
    /\ etaglist.nodes[fileparts[1].petag].etag = writes[2][2]
    /\ etaglist.nodes[fileparts[3].petag].etag = writes[1][2]
    /\ etaglist.nodes[fileparts[2].petag].etag = ""

PartNumbersDistinct ==
    \A i, j \in 1..Len(etaglist.order) :
        i # j => etaglist.nodes[etaglist.order[i]].part_num
                    # etaglist.nodes[etaglist.order[j]].part_num

\* C6 as stated: after any add_etag_list calls, with default or explicit numbers, the
\* part numbers in the list are pairwise distinct.
C6_Distinct == PartNumbersDistinct

\* C6 amended: when every call used default numbering, the part numbers in the list
\* are pairwise distinct.
C6_DistinctWhenDefault == AllDefault => PartNumbersDistinct

C6_Witness == AllDefault /\ Len(etaglist.order) = 3 /\ Len(writes) = 1

\* C7: n calls with default numbering give the list, in insertion order, the part
\* numbers 1..n (the k-th entry has number k, the list size before the call plus
\* one), each entry with an empty etag until one is written through its handle.
C7_DefaultNumbering ==
    AllDefault =>
        /\ Len(etaglist.order) = Len(calls)
        /\ \A k \in 1..Len(etaglist.order) :
              /\ etaglist.nodes[etaglist.order[k]].part_num = k
              /\ get_part_number(fileparts[k], etaglist) = k
              /\ ~ fileparts[k].uploaded => etaglist.nodes[etaglist.order[k]].etag = ""

C7_Witness ==
    /\ AllDefault /\ Len(calls) = 3 /\ writes = << >>
    /\ etags_in_part_order(etaglist) = <<<<1, "">>, <<2, "">>, <<3, "">>>>

\* C8: etags_in_part_order has one pair per list entry, in ascending part number,
\* whatever the order of the calls and of the completions; with default numbering
\* its i-th pair is part number i with the etag written through the i-th handle.
C8_SortedByPartNumber ==
    LET r == etags_in_part_order(etaglist)
    IN  /\ Len(r) = Len(etaglist.order)
        /\ \A i \in 1..(Len(r) - 1) : r[i][1] <= r[i + 1][1]
        /\ \A pr \in {r[i] : i \in 1..Len(r)} \cup
                     {<<etaglist.nodes[a].part_num, etaglist.nodes[a].etag>> :
                          a \in DOMAIN etaglist.nodes} :
               Cardinality({i \in 1..Len(r) : r[i] = pr})
                   = Cardinality({a \in DOMAIN etaglist.nodes :
                         <<etaglist.nodes[a].part_num, etaglist.nodes[a].etag>> = pr})
        /\ AllDefault => \A i \in 1..Len(r) : r[i] = <<i, Written(i)>>

\* three default-numbered parts completed in the order 2, 3, 1
C8_Witness ==
    /\ AllDefault /\ Len(calls) = 3
    /\ Len(writes) = 3 /\ writes[1][1] = 2 /\ writes[2][1] = 3 /\ writes[3][1] = 1
    /\ etags_in_part_order(etaglist)
          = <<<<1, writes[3][2]>>, <<2, writes[1][2]>>, <<3, writes[2][2]>>>>

----------------------------------------------------------------------------
(* Properties of acl_t *)

\* C10: from_str matches exactly and case-sensitively: each of the four names parses
\* to a value whose str() is the same string, and every other string parses to
\* UNKNOWN, whose str() is NULL.
C10_ExactMatch ==
    /\ acl_arg \in AclNames =>
          /\ value_ # "UNKNOWN"
          /\ str(value_) = <<acl_arg>>
          /\ str_ret.called => str_ret.ptr = <<acl_arg>>
    /\ acl_arg \notin AclNames =>
          /\ value_ = "UNKNOWN"
          /\ str(value_) = << >>
          /\ str_ret.called => str_ret.ptr = << >>

\* "PUBLIC-READ" has been parsed and converted back
C10_Witness ==
    /\ acl_arg = Upper(S_public_read)
    /\ acl_arg # S_public_read
    /\ value_ = "UNKNOWN"
    /\ str_ret.called /\ str_ret.ptr = << >>

====
